---- MODULE Spec2Model ----
(***************************************************************************)
(* Model of marc_extractor_rs: main.rs (coordinator, fetch tasks, writer   *)
(* task), db.rs (count and chunk queries) and writer.rs (XmlWriter).       *)
(*                                                                         *)
(* A String is a sequence of lexemes; an Option<T> is <<>> (None) or <<v>> *)
(* (Some(v)); a Result is carried by the outcome drawn in each action.     *)
(***************************************************************************)
EXTENDS Integers, Sequences, FiniteSets, TLC

\* ---- bounds of the model ------------------------------------------------
\* rows of biblio.record_entry
MaxRows == 3
\* --chunk-size ranges over 1..MaxChunkSize
MaxChunkSize == 2
\* --workers ranges over 1..MaxWorkers
MaxWorkers == 2
\* --limit ranges over None and Some(0..MaxLimit)
MaxLimit == 2
\* write_record calls that fail in one run
MaxWriteErrors == 1
\* capacity of the mpsc channel (1000 in main.rs), scaled down
QueueCapacity == 1
\* lexemes of a payload handed to clean_marc_xml on its own
MaxPayloadLen == 4

None == << >>
Some(v) == << v >>

Min(a, b) == IF a <= b THEN a ELSE b

\* ---- strings -------------------------------------------------------------
WS == " "
XmlDeclOpen == "<?xml"
XmlDeclClose == "?>"
CollectionOpen == "<collection"
MarcNs == " xmlns=\"http://www.loc.gov/MARC21/slim\""
TagClose == ">"
CollectionEnd == "</collection>"
RecordText == "<record/>"
Newline == "\n"

\* char::is_whitespace, on the lexemes of the model
IsWhitespace(ch) == ch \in {WS, Newline}

RECURSIVE TrimStart(_)
TrimStart(s) ==
    IF s # << >> /\ IsWhitespace(Head(s)) THEN TrimStart(Tail(s)) ELSE s

RECURSIVE TrimEnd(_)
TrimEnd(s) ==
    IF s # << >> /\ IsWhitespace(s[Len(s)])
    THEN TrimEnd(SubSeq(s, 1, Len(s) - 1)) ELSE s

\* str::trim
Trim(s) == TrimEnd(TrimStart(s))

\* s[from..] starts with pat
StartsWith(s, from, pat) ==
    /\ from + Len(pat) - 1 <= Len(s)
    /\ \A k \in 1..Len(pat) : s[from + k - 1] = pat[k]

\* str::find on s[from..]: index (1-based, in s) of the first match, 0 if none
RECURSIVE FindFrom(_, _, _)
FindFrom(s, from, pat) ==
    IF from + Len(pat) - 1 > Len(s) THEN 0
    ELSE IF StartsWith(s, from, pat) THEN from
    ELSE FindFrom(s, from + 1, pat)

\* String::replace_range(a..b, ""), with a..b inclusive here
RemoveRange(s, a, b) == SubSeq(s, 1, a - 1) \o SubSeq(s, b + 1, Len(s))

\* str::replace(pat, ""): every non-overlapping match, left to right
RECURSIVE ReplaceAll(_, _)
ReplaceAll(s, pat) ==
    IF s = << >> THEN << >>
    ELSE IF StartsWith(s, 1, pat) THEN ReplaceAll(SubSeq(s, Len(pat) + 1, Len(s)), pat)
    ELSE << Head(s) >> \o ReplaceAll(Tail(s), pat)

RemoveXmlDecl(s) ==
    LET pos == FindFrom(s, 1, << XmlDeclOpen >>) IN
    IF pos = 0 THEN s
    ELSE LET endp == FindFrom(s, pos, << XmlDeclClose >>) IN
         IF endp = 0 THEN s ELSE RemoveRange(s, pos, endp)

\* the lexemes whose last character is '>'
EndsWithGt(ch) == ch \in {TagClose, XmlDeclClose, CollectionEnd, RecordText}

\* str::find('>') on s[from..]: index of the first lexeme that ends the
\* match, 0 if none
RECURSIVE FindGt(_, _)
FindGt(s, from) ==
    IF from > Len(s) THEN 0
    ELSE IF EndsWithGt(s[from]) THEN from
    ELSE FindGt(s, from + 1)

RemoveOtherCollection(s) ==
    LET pos == FindFrom(s, 1, << CollectionOpen >>) IN
    IF pos = 0 THEN s
    ELSE LET endp == FindGt(s, pos) IN
         IF endp = 0 THEN s ELSE RemoveRange(s, pos, endp)

\* XmlWriter::clean_marc_xml
clean_marc_xml(marc) ==
    LET c0 == Trim(marc)
        c1 == RemoveXmlDecl(c0)
        c2 == ReplaceAll(c1, << CollectionOpen, MarcNs, TagClose >>)
        c3 == ReplaceAll(c2, << CollectionEnd >>)
        c4 == RemoveOtherCollection(c3)
    IN  Trim(c4)

\* ---- the source relation and the command line ---------------------------
\* a double-wrapped fragment, as in the example of the specification
WrappedRecord ==
    << XmlDeclOpen, XmlDeclClose, CollectionOpen, MarcNs, TagClose, Newline,
       RecordText, Newline, CollectionEnd >>

\* the marc text of the i-th row when it has one: wrapped, padded or plain
MarcTextAt(i) ==
    IF i = 1 THEN WrappedRecord
    ELSE IF i = 2 THEN << WS, RecordText, Newline >>
    ELSE << RecordText >>

\* whitespace only
BlankText == << WS, Newline >>

\* primary keys: unique, increasing with the position in ORDER BY id
IdOf(i) == 10 * i

\* the i-th row of a table whose row nullAt holds NULL and whose row blankAt
\* holds whitespace (0: no such row); the first row is a deleted one
RowAt(i, nullAt, blankAt) ==
    [ id |-> IdOf(i),
      deleted |-> (i = 1),
      marc |-> IF i = nullAt THEN None
               ELSE IF i = blankAt THEN Some(BlankText)
               ELSE Some(MarcTextAt(i)) ]

\* tables of up to MaxRows rows with at most one NULL and one blank payload
Tables ==
    UNION { { [i \in 1..n |-> RowAt(i, at[1], at[2])] :
              at \in { p \in (0..n) \X (0..n) : p[2] = 0 \/ p[2] # p[1] } } :
            n \in 0..MaxRows }

ArgsSet ==
    [ workers : 1..MaxWorkers,
      chunk_size : 1..MaxChunkSize,
      include_deleted : BOOLEAN,
      limit : {None} \cup { Some(l) : l \in 0..MaxLimit } ]

VARIABLES
    table,        \* biblio.record_entry, in id order
    args,         \* Args
    pc,           \* position of main
    total_count,  \* result of the count query
    exit_code,    \* Option: the process's exit status
    wr,           \* position of the writer task
    wstate,       \* chunk_id -> position of its fetch task
    buf,          \* chunk_id -> records fetched and not yet sent
    in_use,       \* pool connections held
    queue,        \* content of the channel
    tx_main,      \* main still holds its Sender
    rx_alive,     \* the Receiver has not been dropped
    output,       \* what the writer's sink has accepted, in order
    processed,    \* AtomicU64 processed
    errors,       \* AtomicU64 errors
    enqueued,     \* history: chunk_id -> ids sent into the channel
    dequeued,     \* history: ids received by the writer task
    write_errors, \* history: write_record calls that returned Err
    queries,      \* history: chunk_id -> the (LIMIT, OFFSET) it has bound
    started       \* history: outcome of connecting and counting

vars ==
    << table, args, pc, total_count, exit_code, wr, wstate, buf,
       in_use, queue, tx_main, rx_alive, output, processed, errors,
       enqueued, dequeued, write_errors, queries, started >>

\* ---- db.rs ----------------------------------------------------------------
\* the relation both queries select from (WHERE deleted = false unless
\* include_deleted), ORDER BY id
Eligible ==
    SelectSeq(table, LAMBDA r : args.include_deleted \/ ~r.deleted)

get_record_count == Len(Eligible)

\* the rows of the page in descending id order
QueryRowsDescending(lim, offset) ==
    LET page == SubSeq(Eligible, offset + 1, Min(offset + lim, Len(Eligible)))
    IN  [k \in 1..Len(page) |-> page[Len(page) + 1 - k]]

\* LIMIT $1 OFFSET $2
QueryRows(lim, offset) ==
    SubSeq(Eligible, offset + 1, Min(offset + lim, Len(Eligible)))

\* mutant: the filter without the trim
KeepRowNoTrim(row) ==
    /\ row.marc # None
    /\ row.marc[1] # << >>

\* the row filter of fetch_records: Some(marc) with a non-empty trim
KeepRow(row) ==
    /\ row.marc # None
    /\ Trim(row.marc[1]) # << >>

RECURSIVE ToRecords(_)
ToRecords(rows) ==
    IF rows = << >> THEN << >>
    ELSE IF KeepRow(Head(rows))
         THEN << [id |-> Head(rows).id, marc |-> Head(rows).marc[1]] >>
              \o ToRecords(Tail(rows))
         ELSE ToRecords(Tail(rows))

\* a LIMIT bound cut down to --limit
FetchLimitTruncated ==
    IF args.limit = None THEN args.chunk_size
    ELSE Min(args.chunk_size, args.limit[1])

\* the LIMIT bound of a chunk query
FetchLimit == args.chunk_size

\* fetch_records on success
fetch_records(offset) == ToRecords(QueryRows(FetchLimit, offset))

\* ---- main.rs: planning ----------------------------------------------------
records_to_process ==
    IF args.limit = None THEN total_count ELSE Min(args.limit[1], total_count)

\* mutant: the division rounding down
num_chunksFloor ==
    records_to_process \div args.chunk_size

num_chunks ==
    (records_to_process + args.chunk_size - 1) \div args.chunk_size

ChunkIds == 0..(num_chunks - 1)

\* mutant: the offset not scaled by the chunk size
OffsetUnscaled(chunk_id) == chunk_id

Offset(chunk_id) == chunk_id * args.chunk_size

LimitReached(chunk_id) ==
    args.limit # None /\ Offset(chunk_id) >= args.limit[1]

Finished(c) == wstate[c] \in {"done", "failed", "skipped", "aborted"}

\* mutant: only main's Sender counted
ChannelClosedMainOnly == ~tx_main

\* every Sender is dropped: recv returns None once the queue is empty
ChannelClosed ==
    ~tx_main /\ \A c \in DOMAIN wstate : Finished(c)

\* ---- writer.rs: what each call hands to the sink --------------------------
Piece(kind, id, text) == [kind |-> kind, id |-> id, text |-> text]

DeclPiece ==
    Piece("decl", 0, << XmlDeclOpen, XmlDeclClose, Newline >>)

OpenPiece ==
    Piece("open", 0, << CollectionOpen, MarcNs, TagClose, Newline >>)

ClosePiece ==
    Piece("close", 0, << CollectionEnd, Newline >>)

\* the marc texts a row of Tables can hold
Payloads == { MarcTextAt(i) : i \in 1..MaxRows } \cup { BlankText }

\* clean_marc_xml, tabulated over the marc texts of the tables
Cleaned == [ marc \in Payloads |-> clean_marc_xml(marc) ]

RecordPiece(record) ==
    Piece("record", record.id, Cleaned[record.marc])

NewlinePiece(record) ==
    Piece("newline", record.id, << Newline >>)

\* XmlWriter::new
NewOutcomes == {"ok", "create_err", "decl_err", "open_err"}

\* mutant: the XML declaration left out
NewWritesNoDecl(outcome) ==
    IF outcome = "ok" THEN << OpenPiece >> ELSE << >>

NewWrites(outcome) ==
    CASE outcome = "ok" -> << DeclPiece, OpenPiece >>
      [] outcome = "open_err" -> << DeclPiece >>
      [] OTHER -> << >>

\* XmlWriter::write_record
WriteOutcomes == {"ok", "marc_err", "newline_err"}

RecordWrites(record, outcome) ==
    CASE outcome = "ok" -> << RecordPiece(record), NewlinePiece(record) >>
      [] outcome = "newline_err" -> << RecordPiece(record) >>
      [] OTHER -> << >>

\* XmlWriter::finalize
FinalizeOutcomes == {"ok", "close_err", "flush_err"}

FinalizeWrites(outcome) ==
    IF outcome = "close_err" THEN << >> ELSE << ClosePiece >>

\* ---- initial state --------------------------------------------------------
Init ==
    /\ table \in Tables
    /\ args \in ArgsSet
    /\ pc = "start"
    /\ total_count = 0
    /\ exit_code = None
    /\ wr = "unspawned"
    /\ wstate = [c \in {} |-> "spawned"]
    /\ buf = [c \in {} |-> << >>]
    /\ in_use = 0
    /\ queue = << >>
    /\ tx_main = TRUE
    /\ rx_alive = TRUE
    /\ output = << >>
    /\ processed = 0
    /\ errors = 0
    /\ enqueued = [c \in {} |-> << >>]
    /\ dequeued = << >>
    /\ write_errors = 0
    /\ queries = [c \in {} |-> << >>]
    /\ started = "no"

\* ---- main -----------------------------------------------------------------
StartOutcomes == {"ok", "connect_err", "count_err"}

\* connect the pool, run the count query, return early on zero
MainStart ==
    /\ pc = "start"
    /\ \E outcome \in StartOutcomes :
         /\ started' = (IF outcome = "ok" THEN "ok" ELSE "err")
         /\ IF outcome = "ok"
            THEN /\ total_count' = get_record_count
                 /\ IF get_record_count = 0
                    THEN pc' = "exited" /\ exit_code' = Some(0)
                    ELSE pc' = "spawn" /\ UNCHANGED exit_code
            ELSE /\ pc' = "exited"
                 /\ exit_code' = Some(1)
                 /\ UNCHANGED total_count
    /\ UNCHANGED << table, args, wr, wstate, buf, in_use, queue, tx_main,
                    rx_alive, output, processed, errors, enqueued, dequeued,
                    write_errors, queries >>

\* create the channel, spawn the writer task and one task per chunk
MainSpawn ==
    /\ pc = "spawn"
    /\ wr' = "new"
    /\ wstate' = [c \in ChunkIds |-> "spawned"]
    /\ buf' = [c \in ChunkIds |-> << >>]
    /\ enqueued' = [c \in ChunkIds |-> << >>]
    /\ queries' = [c \in ChunkIds |-> << >>]
    /\ pc' = "drop_tx"
    /\ UNCHANGED << table, args, total_count, exit_code, in_use, queue,
                    tx_main, rx_alive, output, processed, errors, dequeued,
                    write_errors, started >>

\* main goes on to the joins with its Sender still alive
MainKeepTx ==
    /\ pc = "drop_tx"
    /\ pc' = "join_workers"
    /\ UNCHANGED << table, args, total_count, exit_code, wr, wstate, buf,
                    in_use, queue, tx_main, rx_alive, output, processed,
                    errors, enqueued, dequeued, write_errors, queries,
                    started >>

\* drop(tx)
MainDropTx ==
    /\ pc = "drop_tx"
    /\ tx_main' = FALSE
    /\ pc' = "join_workers"
    /\ UNCHANGED << table, args, total_count, exit_code, wr, wstate, buf,
                    in_use, queue, rx_alive, output, processed, errors,
                    enqueued, dequeued, write_errors, queries, started >>

MainJoinWorkers ==
    /\ pc = "join_workers"
    /\ \A c \in DOMAIN wstate : Finished(c)
    /\ pc' = "join_writer"
    /\ UNCHANGED << table, args, total_count, exit_code, wr, wstate, buf,
                    in_use, queue, tx_main, rx_alive, output, processed,
                    errors, enqueued, dequeued, write_errors, queries,
                    started >>

\* mutant: the error counter not consulted
ExitStatusIgnoresErrors ==
    IF wr \in {"new_failed", "finalize_failed"} THEN 1 ELSE 0

\* mutant: the writer task's result not propagated
ExitStatusIgnoresWriter ==
    IF errors > 0 THEN 1 ELSE 0

\* the status main ends with once the writer task has returned
ExitStatus ==
    IF wr \in {"new_failed", "finalize_failed"} THEN 1
    ELSE IF errors > 0 THEN 1
    ELSE 0

MainJoinWriter ==
    /\ pc = "join_writer"
    /\ wr \in {"finalized", "new_failed", "finalize_failed"}
    /\ exit_code' = Some(ExitStatus)
    /\ pc' = "exited"
    /\ UNCHANGED << table, args, total_count, wr, wstate, buf, in_use, queue,
                    tx_main, rx_alive, output, processed, errors, enqueued,
                    dequeued, write_errors, queries, started >>

\* ---- fetch tasks ----------------------------------------------------------
\* a pool that hands out a connection whatever the number in use
PoolUnbounded == TRUE

\* the pool has a connection to hand out: max_connections(args.workers)
PoolIdle == in_use < args.workers

\* the limit check, then fetch_all binds LIMIT and OFFSET and takes a
\* connection of the pool
WorkerBegin(c) ==
    /\ wstate[c] = "spawned"
    /\ IF LimitReached(c)
       THEN /\ wstate' = [wstate EXCEPT ![c] = "skipped"]
            /\ UNCHANGED << in_use, queries >>
       ELSE /\ PoolIdle
            /\ in_use' = in_use + 1
            /\ queries' = [queries EXCEPT
                             ![c] = Append(@, [limit |-> FetchLimit,
                                               offset |-> Offset(c)])]
            /\ wstate' = [wstate EXCEPT ![c] = "querying"]
    /\ UNCHANGED << table, args, pc, total_count, exit_code, wr, buf, queue,
                    tx_main, rx_alive, output, processed, errors, enqueued,
                    dequeued, write_errors, started >>

\* fetch_records returns Ok(records)
WorkerFetchOk(c) ==
    /\ wstate[c] = "querying"
    /\ in_use' = in_use - 1
    /\ buf' = [buf EXCEPT ![c] = fetch_records(Offset(c))]
    /\ wstate' = [wstate EXCEPT
                    ![c] = IF fetch_records(Offset(c)) = << >>
                           THEN "done" ELSE "sending"]
    /\ UNCHANGED << table, args, pc, total_count, exit_code, wr, queue,
                    tx_main, rx_alive, output, processed, errors, enqueued,
                    dequeued, write_errors, queries, started >>

\* a failed query whose connection never goes back to the pool
WorkerFetchErrKeepsConn(c) ==
    /\ wstate[c] = "querying"
    /\ errors' = errors + 1
    /\ wstate' = [wstate EXCEPT ![c] = "failed"]
    /\ UNCHANGED << table, args, pc, total_count, exit_code, wr, buf, queue,
                    in_use, tx_main, rx_alive, output, processed, enqueued,
                    dequeued, write_errors, queries, started >>

\* fetch_records returns Err
WorkerFetchErr(c) ==
    /\ wstate[c] = "querying"
    /\ in_use' = in_use - 1
    /\ errors' = errors + 1
    /\ wstate' = [wstate EXCEPT ![c] = "failed"]
    /\ UNCHANGED << table, args, pc, total_count, exit_code, wr, buf, queue,
                    tx_main, rx_alive, output, processed, enqueued, dequeued,
                    write_errors, queries, started >>

\* a send error counted as a failed chunk
WorkerSendCountsErr(c) ==
    /\ wstate[c] = "sending"
    /\ IF ~rx_alive
       THEN /\ wstate' = [wstate EXCEPT ![c] = "aborted"]
            /\ buf' = [buf EXCEPT ![c] = << >>]
            /\ errors' = errors + 1
            /\ UNCHANGED << queue, enqueued >>
       ELSE /\ Len(queue) < QueueCapacity
            /\ queue' = Append(queue, Head(buf[c]))
            /\ enqueued' = [enqueued EXCEPT ![c] = Append(@, Head(buf[c]).id)]
            /\ buf' = [buf EXCEPT ![c] = Tail(@)]
            /\ wstate' = [wstate EXCEPT
                            ![c] = IF Tail(buf[c]) = << >>
                                   THEN "done" ELSE "sending"]
            /\ UNCHANGED errors
    /\ UNCHANGED << table, args, pc, total_count, exit_code, wr, in_use,
                    tx_main, rx_alive, output, processed, dequeued,
                    write_errors, queries, started >>

\* tx.send(record).await: Err once the Receiver is gone, a slot otherwise
WorkerSend(c) ==
    /\ wstate[c] = "sending"
    /\ IF ~rx_alive
       THEN /\ wstate' = [wstate EXCEPT ![c] = "aborted"]
            /\ buf' = [buf EXCEPT ![c] = << >>]
            /\ UNCHANGED << queue, enqueued >>
       ELSE /\ Len(queue) < QueueCapacity
            /\ queue' = Append(queue, Head(buf[c]))
            /\ enqueued' = [enqueued EXCEPT ![c] = Append(@, Head(buf[c]).id)]
            /\ buf' = [buf EXCEPT ![c] = Tail(@)]
            /\ wstate' = [wstate EXCEPT
                            ![c] = IF Tail(buf[c]) = << >>
                                   THEN "done" ELSE "sending"]
    /\ UNCHANGED << table, args, pc, total_count, exit_code, wr, in_use,
                    tx_main, rx_alive, output, processed, errors, dequeued,
                    write_errors, queries, started >>

\* ---- writer task ----------------------------------------------------------
\* a writer task that fails in XmlWriter::new and keeps its Receiver
WriterNewKeepsRx ==
    /\ wr = "new"
    /\ \E outcome \in NewOutcomes :
         /\ output' = output \o NewWrites(outcome)
         /\ wr' = IF outcome = "ok" THEN "loop" ELSE "new_failed"
    /\ UNCHANGED << table, args, pc, total_count, exit_code, wstate, buf,
                    in_use, queue, tx_main, rx_alive, processed, errors,
                    enqueued, dequeued, write_errors, queries, started >>

\* XmlWriter::new; on Err the task returns and the Receiver is dropped
WriterNew ==
    /\ wr = "new"
    /\ \E outcome \in NewOutcomes :
         /\ output' = output \o NewWrites(outcome)
         /\ IF outcome = "ok"
            THEN wr' = "loop" /\ UNCHANGED << rx_alive, queue >>
            ELSE wr' = "new_failed" /\ rx_alive' = FALSE /\ queue' = << >>
    /\ UNCHANGED << table, args, pc, total_count, exit_code, wstate, buf,
                    in_use, tx_main, processed, errors, enqueued, dequeued,
                    write_errors, queries, started >>

\* a writer task that returns at the first write_record error
WriterRecordStopOnErr ==
    /\ wr = "loop"
    /\ queue # << >>
    /\ dequeued' = Append(dequeued, Head(queue).id)
    /\ \E outcome \in WriteOutcomes :
         /\ outcome = "ok" \/ write_errors < MaxWriteErrors
         /\ output' = output \o RecordWrites(Head(queue), outcome)
         /\ IF outcome = "ok"
            THEN /\ processed' = processed + 1
                 /\ queue' = Tail(queue)
                 /\ UNCHANGED << write_errors, wr, rx_alive >>
            ELSE /\ write_errors' = write_errors + 1
                 /\ wr' = "finalize_failed"
                 /\ rx_alive' = FALSE
                 /\ queue' = << >>
                 /\ UNCHANGED processed
    /\ UNCHANGED << table, args, pc, total_count, exit_code, wstate, buf,
                    in_use, tx_main, errors, enqueued, queries, started >>

\* rx.recv() returns Some(record); write_record; count on Ok
WriterRecord ==
    /\ wr = "loop"
    /\ queue # << >>
    /\ queue' = Tail(queue)
    /\ dequeued' = Append(dequeued, Head(queue).id)
    /\ \E outcome \in WriteOutcomes :
         /\ outcome = "ok" \/ write_errors < MaxWriteErrors
         /\ output' = output \o RecordWrites(Head(queue), outcome)
         /\ IF outcome = "ok"
            THEN processed' = processed + 1 /\ UNCHANGED write_errors
            ELSE write_errors' = write_errors + 1 /\ UNCHANGED processed
    /\ UNCHANGED << table, args, pc, total_count, exit_code, wr, wstate, buf,
                    in_use, tx_main, rx_alive, errors, enqueued, queries,
                    started >>

\* rx.recv() returns None; finalize
WriterFinalize ==
    /\ wr = "loop"
    /\ queue = << >>
    /\ ChannelClosed
    /\ \E outcome \in FinalizeOutcomes :
         /\ output' = output \o FinalizeWrites(outcome)
         /\ wr' = IF outcome = "ok" THEN "finalized" ELSE "finalize_failed"
    /\ rx_alive' = FALSE
    /\ UNCHANGED << table, args, pc, total_count, exit_code, wstate, buf,
                    in_use, queue, tx_main, processed, errors, enqueued,
                    dequeued, write_errors, queries, started >>

Next ==
    \/ MainStart
    \/ MainSpawn
    \/ MainDropTx
    \/ MainJoinWorkers
    \/ MainJoinWriter
    \/ \E c \in DOMAIN wstate : WorkerBegin(c)
    \/ \E c \in DOMAIN wstate : WorkerFetchOk(c)
    \/ \E c \in DOMAIN wstate : WorkerFetchErr(c)
    \/ \E c \in DOMAIN wstate : WorkerSend(c)
    \/ WriterNew
    \/ WriterRecord
    \/ WriterFinalize

Spec == Init /\ [][Next]_vars

\* the tokio runtime keeps polling: while some task can take a step, a step
\* is taken (every query, send, recv and write that can return does return)
FairSpec == Spec /\ WF_vars(Next)

\* ---- clean_marc_xml on its own ---------------------------------------------
\* the fragments a payload is made of
Alphabet ==
    { XmlDeclOpen, XmlDeclClose, CollectionOpen, MarcNs, TagClose,
      CollectionEnd, RecordText, WS }

\* the payloads of up to MaxPayloadLen fragments
PayloadTexts == UNION { [1..n -> Alphabet] : n \in 0..MaxPayloadLen }

\* a writer in its loop with one record, of any payload, to write
CleanInit ==
    /\ table = << >>
    /\ args = [workers |-> 1, chunk_size |-> 1, include_deleted |-> FALSE,
               limit |-> None]
    /\ pc = "join_writer"
    /\ total_count = 1
    /\ exit_code = None
    /\ wr = "loop"
    /\ wstate = [c \in {} |-> "spawned"]
    /\ buf = [c \in {} |-> << >>]
    /\ in_use = 0
    /\ \E marc \in PayloadTexts : queue = << [id |-> IdOf(1), marc |-> marc] >>
    /\ tx_main = FALSE
    /\ rx_alive = TRUE
    /\ output = << >>
    /\ processed = 0
    /\ errors = 0
    /\ enqueued = [c \in {} |-> << >>]
    /\ dequeued = << >>
    /\ write_errors = 0
    /\ queries = [c \in {} |-> << >>]
    /\ started = "ok"

\* clean_marc_xml applied to the record's text; the cleaned text is written
\* and is the text the next application is given
CleanStep ==
    /\ queue # << >>
    /\ Len(output) < 2
    /\ LET record == Head(queue)
           cleaned == clean_marc_xml(record.marc)
       IN  /\ output' = Append(output, Piece("record", record.id, cleaned))
           /\ queue' = << [id |-> record.id, marc |-> cleaned] >>
    /\ UNCHANGED << table, args, pc, total_count, exit_code, wr, wstate, buf,
                    in_use, tx_main, rx_alive, processed, errors, enqueued,
                    dequeued, write_errors, queries, started >>

CleanNext == CleanStep

CleanSpec == CleanInit /\ [][CleanNext]_vars

\* ==== properties ===========================================================
RECURSIVE SumOver(_, _)
SumOver(S, f) ==
    IF S = {} THEN 0
    ELSE LET x == CHOOSE y \in S : TRUE IN f[x] + SumOver(S \ {x}, f)

\* a payload that is present and holds something besides whitespace
HasPayload(row) ==
    /\ row.marc # None
    /\ \E k \in 1..Len(row.marc[1]) : row.marc[1][k] \notin {WS, Newline}

\* positions, in the eligible relation, of the range of chunk c
RangeOf(c) ==
    { i \in 1..Len(Eligible) :
        c * args.chunk_size < i /\ i <= (c + 1) * args.chunk_size }

\* ids of the rows with a payload in the range of chunk c, in id order
PayloadIdsOf(c) ==
    LET kept == SelectSeq(SubSeq(Eligible, c * args.chunk_size + 1,
                                 Min((c + 1) * args.chunk_size, Len(Eligible))),
                          HasPayload)
    IN  [k \in 1..Len(kept) |-> kept[k].id]

\* number of rows with a payload in the ranges of the chunks in S
PayloadCount(S) ==
    Cardinality({ i \in 1..Len(Eligible) :
                    HasPayload(Eligible[i]) /\ \E c \in S : i \in RangeOf(c) })

Planned == DOMAIN wstate

RunEnded == pc = "exited" /\ started = "ok" /\ total_count > 0

FailedChunks == { c \in Planned : wstate[c] = "failed" }

CountKind(seq, kind) ==
    Cardinality({ i \in 1..Len(seq) : seq[i].kind = kind })

\* C1 as stated: after a run with no failed fetch and no failed record write,
\* processed is the number of rows with a payload in the planned chunks' ranges.
C1_AsStated ==
    (RunEnded /\ errors = 0 /\ write_errors = 0)
        => processed = PayloadCount(Planned)

\* C1 amended: the same, for the runs in which the sink was constructed
\* (XmlWriter::new returned Ok).
C1_ProcessedCount ==
    (RunEnded /\ errors = 0 /\ write_errors = 0 /\ wr # "new_failed")
        => /\ processed = PayloadCount(Planned)
           /\ (args.limit = None =>
                 processed = Cardinality({ i \in 1..Len(Eligible) :
                                             HasPayload(Eligible[i]) }))

C1_Witness ==
    /\ RunEnded /\ errors = 0 /\ write_errors = 0 /\ wr = "finalized"
    /\ Cardinality(Planned) >= 2
    /\ processed >= 2
    /\ processed < total_count

\* C2: no record id is written to the output more than once, and no id is
\* enqueued more than once, in every reachable state.
C2_ExactlyOnce ==
    /\ \A i, j \in 1..Len(output) :
          (i < j /\ output[i].kind = "record" /\ output[j].kind = "record")
              => output[i].id # output[j].id
    /\ \A c, d \in Planned : \A i \in 1..Len(enqueued[c]) :
          \A j \in 1..Len(enqueued[d]) :
              (enqueued[c][i] = enqueued[d][j]) => (c = d /\ i = j)

C2_Witness ==
    /\ pc = "exited"
    /\ CountKind(output, "record") >= 2
    /\ errors > 0
    /\ write_errors > 0

\* the single-failure outcome C3 describes
SingleFailureOutcome ==
    /\ errors = 1
    /\ exit_code = Some(1)
    /\ \A c \in FailedChunks : enqueued[c] = << >>
    /\ \A c \in Planned \ FailedChunks : enqueued[c] = PayloadIdsOf(c)
    /\ processed = PayloadCount(Planned \ FailedChunks)

\* C3 as stated: when exactly one chunk's fetch fails, failedChunks ends at 1,
\* the other chunks' records are all enqueued and counted, the failed chunk
\* enqueues nothing and the exit code is 1.
C3_AsStated ==
    (RunEnded /\ Cardinality(FailedChunks) = 1) => SingleFailureOutcome

\* C3 amended: the same, for the runs in which the sink was constructed and no
\* record write failed.
C3_SingleFailure ==
    (RunEnded /\ Cardinality(FailedChunks) = 1
       /\ wr # "new_failed" /\ write_errors = 0)
        => SingleFailureOutcome

C3_Witness ==
    /\ RunEnded /\ Cardinality(FailedChunks) = 1
    /\ wr = "finalized" /\ write_errors = 0
    /\ Cardinality(Planned) >= 2
    /\ processed >= 1
    /\ \E c \in FailedChunks : PayloadCount({c}) >= 1

\* C4 as stated: the exit code is non-zero exactly when failedChunks > 0.
C4_AsStated ==
    pc = "exited" => ((exit_code # Some(0)) <=> (errors > 0))

\* C4 amended: the exit code is non-zero exactly when failedChunks > 0 or the
\* run met a fatal error: connecting or counting failed, the sink could not
\* be constructed, or finalize failed.
C4_ExitCode ==
    pc = "exited" =>
        /\ exit_code \in {Some(0), Some(1)}
        /\ (exit_code # Some(0)) <=>
             \/ errors > 0
             \/ started = "err"
             \/ wr \in {"new_failed", "finalize_failed"}

C4_Witness ==
    /\ pc = "exited"
    /\ exit_code = Some(1)
    /\ errors > 0
    /\ wr = "finalized"
    /\ processed >= 1

\* C5 as stated: with a count of zero the output is the header followed by
\* the footer, and processed = 0.
C5_AsStated ==
    (pc = "exited" /\ started = "ok" /\ total_count = 0)
        => /\ output = << DeclPiece, OpenPiece, ClosePiece >>
           /\ processed = 0

\* the number of records the planner is to cover: min(n, limit)
Target ==
    IF args.limit = None THEN total_count ELSE Min(args.limit[1], total_count)

CeilDiv(a, b) == (a + b - 1) \div b

AllBegun ==
    /\ started = "ok" /\ total_count > 0
    /\ pc \notin {"start", "spawn"}
    /\ \A c \in Planned : wstate[c] # "spawned"

\* C6 as stated: ceil(min(n, limit)/s) chunk queries are issued, at offsets
\* 0, s, 2s, ..., every LIMIT is s except the last, which is the remainder,
\* and the LIMITs sum to min(n, limit).
C6_AsStated ==
    AllBegun =>
        LET k == CeilDiv(Target, args.chunk_size)
            last == Target - (k - 1) * args.chunk_size
        IN  /\ SumOver(Planned, [c \in Planned |-> Len(queries[c])]) = k
            /\ \A c \in Planned : Len(queries[c]) = 1
            /\ { queries[c][1].offset : c \in Planned }
                 = { i * args.chunk_size : i \in 0..(k - 1) }
            /\ \A c \in Planned :
                 queries[c][1].limit =
                    IF queries[c][1].offset = (k - 1) * args.chunk_size
                    THEN last ELSE args.chunk_size
            /\ SumOver(Planned, [c \in Planned |-> queries[c][1].limit]) = Target

SinkConstructed == wr \in {"loop", "finalized", "finalize_failed"}

\* C7: once the sink is constructed the output starts with the XML
\* declaration and the opening collection tag, each written exactly once, and
\* no record fragment, separator or footer is ever written before them.
C7_HeaderFirst ==
    /\ SinkConstructed =>
         /\ Len(output) >= 2
         /\ output[1] = DeclPiece
         /\ output[2] = OpenPiece
         /\ CountKind(output, "decl") = 1
         /\ CountKind(output, "open") = 1
    /\ \A i \in 1..Len(output) :
         output[i].kind \in {"record", "newline", "close"}
            => /\ i > 2
               /\ output[1].kind = "decl"
               /\ output[2].kind = "open"

C7_Witness ==
    /\ wr = "finalized"
    /\ CountKind(output, "record") >= 2
    /\ output[Len(output)].kind = "close"

\* C8: the sink finalizes only when every fetch task has completed, every
\* sender is dropped and the queue is empty, every enqueued record having
\* been dequeued; the footer is written at most once (exactly once when
\* finalize succeeds) and it is the last thing in the output.
C8_FinalizeLast ==
    /\ CountKind(output, "close") <= 1
    /\ \A i \in 1..Len(output) : output[i].kind = "close" => i = Len(output)
    /\ wr = "finalized" => CountKind(output, "close") = 1
    /\ (wr \in {"finalized", "finalize_failed"} \/ CountKind(output, "close") > 0)
         => /\ \A c \in Planned : Finished(c) /\ buf[c] = << >>
            /\ ~tx_main
            /\ queue = << >>
            /\ SumOver(Planned, [c \in Planned |-> Len(enqueued[c])])
                 = Len(dequeued)

C8_Witness ==
    /\ wr = "finalized"
    /\ Cardinality(Planned) >= 2
    /\ Len(dequeued) >= 2
    /\ pc = "exited"

\* the id of a row whose payload is null or blank
IsBlankId(id) ==
    \E i \in 1..Len(table) : table[i].id = id /\ ~HasPayload(table[i])

\* C9: a row whose payload is null or blank is never held by a fetch task for
\* sending, never enqueued, never dequeued, never written, and never counted
\* in processed.
C9_BlankNeverForwarded ==
    /\ \A c \in Planned :
         /\ \A i \in 1..Len(enqueued[c]) : ~IsBlankId(enqueued[c][i])
         /\ \A i \in 1..Len(buf[c]) : ~IsBlankId(buf[c][i].id)
    /\ \A i \in 1..Len(queue) : ~IsBlankId(queue[i].id)
    /\ \A i \in 1..Len(dequeued) : ~IsBlankId(dequeued[i])
    /\ \A i \in 1..Len(output) : ~IsBlankId(output[i].id)
    /\ processed <= Len(dequeued)

C9_Witness ==
    /\ pc = "exited" /\ wr = "finalized" /\ errors = 0
    /\ \E i, j \in 1..Len(Eligible) :
         /\ Eligible[i].marc = None
         /\ Eligible[j].marc # None /\ ~HasPayload(Eligible[j])
         /\ \E c, d \in Planned : i \in RangeOf(c) /\ j \in RangeOf(d)
    /\ processed >= 1

\* records fetched from the source and not yet received by the writer task
InFlight ==
    SumOver(Planned, [c \in Planned |-> Len(buf[c])]) + Len(queue)

\* a bound that depends on the capacity of the queue alone
InFlightBound == 2 * QueueCapacity

\* C10 as stated: the queue never holds more than its capacity and the
\* records in flight never exceed a bound that depends on the capacity alone.
C10_AsStated ==
    /\ Len(queue) <= QueueCapacity
    /\ InFlight <= InFlightBound

\* the fetch tasks whose chunk query is running
Querying == { c \in Planned : wstate[c] = "querying" }

\* C11: the fetch tasks that hold a connection are those whose chunk query is
\* running (none is held by a task that waits on a send or has ended), and
\* there are never more of them than args.workers.
C11_PoolBound ==
    /\ in_use <= args.workers
    /\ in_use = Cardinality(Querying)

C11_Witness ==
    /\ Cardinality(Planned) > args.workers
    /\ in_use = args.workers
    /\ \E c \in Planned :
         wstate[c] = "sending" /\ Len(queue) = QueueCapacity

\* the sink ran finalize: it returned Ok, or its last write or flush failed
SinkFinalizeRan == wr \in {"finalized", "finalize_failed"}

\* C12 as stated, at the end of the run: a run with total_count > 0 in which
\* the sink was constructed ends with the sink Finalized, the footer written.
C12_AsStated ==
    (RunEnded /\ SinkConstructed)
        => (wr = "finalized" /\ CountKind(output, "close") = 1)

\* the end C12 describes: every planned task completed or failed, every
\* Sender dropped, the queue drained, finalize run, main exited
TerminatedClean ==
    /\ pc = "exited"
    /\ \A c \in Planned : wstate[c] \in {"done", "failed", "skipped"}
    /\ \A c \in Planned : buf[c] = << >>
    /\ ChannelClosed
    /\ queue = << >>
    /\ in_use = 0
    /\ SinkFinalizeRan

\* C12 amended: under fair scheduling every run with total_count > 0 in which
\* the sink is constructed reaches that end, where the sink is Finalized or
\* its finalize returned an error; no task waits forever.
C12_Terminates ==
    (started = "ok" /\ total_count > 0 /\ wr = "loop") ~> TerminatedClean

C12_Witness ==
    /\ TerminatedClean
    /\ wr = "finalized"
    /\ Cardinality(Planned) > args.workers
    /\ errors > 0
    /\ write_errors > 0
    /\ processed >= 1

\* C13 as stated: clean_marc_xml applied to its own result returns that
\* result, for every payload over the alphabet.
C13_AsStated ==
    Len(output) = 2 => output[2].text = output[1].text

\* planning is over, under a --limit smaller than --chunk-size
LimitInsideChunk ==
    /\ started = "ok" /\ total_count > 0
    /\ pc \notin {"start", "spawn"}
    /\ args.limit # None
    /\ args.limit[1] < args.chunk_size

\* one chunk, at offset 0, queried at most once and with LIMIT chunk_size;
\* no more than chunk_size records counted
OneFullChunk ==
    /\ Planned = {0}
    /\ Offset(0) = 0
    /\ Len(queries[0]) <= 1
    /\ wstate[0] \notin {"spawned", "skipped"} =>
          queries[0] = << [limit |-> args.chunk_size, offset |-> 0] >>
    /\ processed <= args.chunk_size
    /\ Len(enqueued[0]) <= args.chunk_size

Ascending(ids) == \A i, j \in 1..Len(ids) : i < j => ids[i] < ids[j]

InSeq(seq, x) == \E k \in 1..Len(seq) : seq[k] = x

EnqueuedCount == SumOver(Planned, [c \in Planned |-> Len(enqueued[c])])

\* C16: a write_record that fails leaves processed as it is and the writer
\* task in its loop with the rest of the queue; every dequeued record is
\* either counted or a failed write; after a failure the sink still dequeues
\* whatever is queued and, once the channel is closed and drained, still runs
\* finalize, which has then received every record sent and writes the footer
\* last.
C16_WriteFailureContinues ==
    /\ [][write_errors' > write_errors =>
            /\ processed' = processed
            /\ wr' = "loop" /\ rx_alive'
            /\ queue' = Tail(queue)]_vars
    /\ [](processed + write_errors = Len(dequeued))
    /\ []((write_errors > 0 /\ ~SinkFinalizeRan) =>
            /\ wr = "loop"
            /\ queue # << >> => ENABLED WriterRecord
            /\ (queue = << >> /\ ChannelClosed) => ENABLED WriterFinalize)
    /\ []((write_errors > 0 /\ SinkFinalizeRan) =>
            /\ Len(dequeued) = EnqueuedCount
            /\ wr = "finalized" => output[Len(output)] = ClosePiece)

\* a write failed, a later record was written and counted, the footer is there
C16_Witness ==
    /\ wr = "finalized" /\ write_errors > 0
    /\ output[Len(output)] = ClosePiece
    /\ \E i \in 1..Len(dequeued) : \E j \in 1..Len(output) :
         /\ output[j].kind = "newline"
         /\ output[j].id = dequeued[i]
         /\ \E k \in 1..(i - 1) :
               \A m \in 1..Len(output) :
                   output[m].kind = "newline" => output[m].id # dequeued[k]

\* seq is a proper prefix of full
ProperPrefix(seq, full) ==
    /\ Len(seq) < Len(full)
    /\ \A k \in 1..Len(seq) : seq[k] = full[k]

\* C17: a send that fails (the Receiver is gone) ends the task at once: the
\* step enqueues nothing and leaves errors as it is, the task counts as
\* finished (main can join it), and from then on it enqueues nothing: what it
\* enqueued stays a proper prefix of its records.
C17_SendFailureStops ==
    /\ [][\A c \in Planned :
            (wstate[c] = "sending" /\ wstate'[c] = "aborted") =>
                /\ ~rx_alive
                /\ errors' = errors
                /\ queue' = queue
                /\ enqueued' = enqueued]_vars
    /\ [][\A c \in Planned :
            wstate[c] = "aborted" =>
                (wstate'[c] = "aborted" /\ enqueued'[c] = enqueued[c])]_vars
    /\ [](\A c \in Planned :
            wstate[c] = "aborted" =>
                /\ Finished(c)
                /\ c \notin FailedChunks
                /\ buf[c] = << >>
                /\ ProperPrefix(enqueued[c], PayloadIdsOf(c)))
    /\ []((\A c \in Planned : wstate[c] \in {"done", "aborted"})
            => errors = 0)

\* the run ended with a task that sent one record and gave up the next
C17_Witness ==
    /\ pc = "exited"
    /\ errors = 0
    /\ \E c \in Planned :
         /\ wstate[c] = "aborted"
         /\ Len(enqueued[c]) = 1
         /\ Len(PayloadIdsOf(c)) = 2

\* number of chunk queries issued so far
QueryCount == SumOver(Planned, [c \in Planned |-> Len(queries[c])])

\* main is past the join of the fetch tasks
WorkersJoined ==
    started = "ok" /\ total_count > 0 /\ pc \in {"join_writer", "exited"}

\* C18: no chunk is ever queried twice and a failed chunk stays failed with
\* its one query (no retry); a failure leaves the other tasks able to fetch
\* (a task waiting to fetch can begin whenever no query is running); once
\* main has joined the tasks every planned chunk has been queried exactly
\* once, so the queries number the planned chunks; errors is the number of
\* failed chunks and never exceeds the number of planned chunks.
C18_FetchedOnce ==
    /\ [][\A c \in Planned :
            wstate[c] = "failed" =>
                (wstate'[c] = "failed" /\ queries'[c] = queries[c])]_vars
    /\ [](\A c \in Planned :
            /\ Len(queries[c]) <= 1
            /\ wstate[c] = "failed" => Len(queries[c]) = 1
            /\ (wstate[c] = "spawned" /\ Querying = {})
                  => ENABLED WorkerBegin(c))
    /\ [](WorkersJoined =>
            /\ \A c \in Planned : Len(queries[c]) = 1
            /\ QueryCount = Cardinality(Planned))
    /\ [](/\ errors = Cardinality(FailedChunks)
          /\ errors <= Cardinality(Planned)
          /\ QueryCount <= Cardinality(Planned))

\* three chunks: the first failed, the others were fetched after it and
\* their records written
C18_Witness ==
    /\ WorkersJoined /\ pc = "exited" /\ wr = "finalized"
    /\ Cardinality(Planned) >= 3
    /\ wstate[0] = "failed"
    /\ errors = 1
    /\ processed >= 2
    /\ QueryCount = Cardinality(Planned)

\* C19 as stated: processed is the number of record fragments in the
\* output, and never exceeds the number of records dequeued.
C19_AsStated ==
    /\ processed = CountKind(output, "record")
    /\ processed <= Len(dequeued)

\* the end of a run whose sink could not be constructed
EndedWithoutSink ==
    /\ pc = "exited"
    /\ exit_code = Some(1)
    /\ \A c \in Planned : Finished(c) /\ buf[c] = << >>
    /\ in_use = 0

\* C20: when XmlWriter::new fails the Receiver is dropped: nothing is ever
\* dequeued, counted or written as a record, a pending send is never blocked
\* (also with the queue full), and under fair scheduling every fetch task
\* ends and main exits with status 1, whatever the value of errors.
C20_SinkFailure ==
    /\ [](wr = "new_failed" =>
            /\ ~rx_alive
            /\ processed = 0
            /\ dequeued = << >>
            /\ CountKind(output, "record") = 0
            /\ CountKind(output, "close") = 0
            /\ \A c \in Planned :
                  wstate[c] = "sending" => ENABLED WorkerSend(c))
    /\ []((wr = "new_failed" /\ pc = "exited") => exit_code = Some(1))
    /\ (wr = "new_failed") ~> EndedWithoutSink

\* no chunk failed, one task had filled the queue and was waiting to send
\* its second record when the sink failed; the run still ended, with 1
C20_Witness ==
    /\ wr = "new_failed"
    /\ EndedWithoutSink
    /\ errors = 0
    /\ \E c \in Planned :
         /\ wstate[c] = "aborted"
         /\ Len(enqueued[c]) = QueueCapacity
         /\ Len(PayloadIdsOf(c)) > QueueCapacity

====
